---- MODULE Spec2Model ----
(***************************************************************************)
(* Media planning application (app.py): bookings, purchase orders and      *)
(* invoices kept in three tables, written by Flask request handlers.       *)
(*                                                                         *)
(* Every handler is a pure operator from (database, request) to            *)
(* [db, resp]: the database after the request and the response sent.       *)
(* Spec runs one request at a time, each handler as one atomic action.     *)
(* SpecConc runs the creation handlers of two server threads commit by     *)
(* commit, so that requests interleave between a lookup and an insert and  *)
(* between the two commits of invoice creation.                            *)
(*                                                                         *)
(* Text is a string; None stands for Python's None (SQL NULL) in a text    *)
(* position and NoneInt in a number position. A text that the code         *)
(* concatenates (Invoice.comments) is a sequence of fragments, and + is    *)
(* \o. Row ids are positions in the table: SQLite hands out max(id)+1 and  *)
(* nothing is ever deleted. Floats are represented by integers.            *)
(***************************************************************************)
EXTENDS Integers, Sequences, FiniteSets, TLC

VARIABLES db, resp, nreq, pc, local

vars == <<db, resp, nreq, pc, local>>

\* The number of requests a behaviour sends.
MaxRequests == 3

None == "<None>"
NoneInt == -1
\* None in the comments column, which holds fragments.
NoneText == <<None>>

\* Python truthiness of a text / of a number.
Falsy(x) == x \in {None, ""}
FalsyInt(x) == x \in {NoneInt, 0}

\* `x or d`
OrText(x, d) == IF Falsy(x) THEN d ELSE x
OrInt(x, d) == IF FalsyInt(x) THEN d ELSE x

\* float(s) / int(s) of a text: the texts Python parses, and their values.
NumericTexts == {"0", "1", "2", "3", "250"}
ParseNumber(s) ==
    CASE s = "0" -> 0
      [] s = "1" -> 1
      [] s = "2" -> 2
      [] s = "3" -> 3
      [] s = "250" -> 250

\* float(form.get(k) or 0), int(form.get(k) or 0): the value, and whether the
\* conversion raises ValueError (an unhandled fault, before any database call).
RaisesValueError(s) == ~Falsy(s) /\ s \notin NumericTexts
ToNumber(s) == IF Falsy(s) THEN 0 ELSE ParseNumber(s)

\* f"PO-{int(datetime.utcnow().timestamp())}"
AutoPoNumber(now) ==
    CASE now = 1 -> "PO-1"
      [] now = 7 -> "PO-7"

----------------------------------------------------------------------------
\* Responses. code 302 is the redirect of a form caller, msg its flash text
\* (or the JSON body's error/message); code 500 is an unhandled exception.

Response(op, code, msg, id) == [op |-> op, code |-> code, msg |-> msg, id |-> id]

Unhandled(op, exc) == Response(op, 500, exc, 0)

EmptyDb == [media_booking |-> <<>>, purchase_order |-> <<>>, invoice |-> <<>>]

----------------------------------------------------------------------------
\* The schema: what a commit of an INSERT accepts.

\* Seeded fault (C7): the two columns declared nullable.
MediaBookingAccepts_Nullable(d, row) == TRUE

\* MediaBooking: campaign_name and channel are nullable=False.
MediaBookingAccepts(d, row) ==
    /\ row.campaign_name # None
    /\ row.channel # None

\* Seeded fault (C8): po_number declared without unique=True.
PurchaseOrderAccepts_NotUnique(d, row) ==
    /\ row.po_number # None
    /\ row.vendor # None

\* PurchaseOrder: po_number unique and nullable=False, vendor nullable=False.
PurchaseOrderAccepts(d, row) ==
    /\ row.po_number # None
    /\ row.vendor # None
    /\ \A i \in DOMAIN d.purchase_order : d.purchase_order[i].po_number # row.po_number

\* Invoice: invoice_number unique and nullable=False, vendor nullable=False.
\* The foreign keys are not enforced (SQLite's default).
InvoiceAccepts(d, row) ==
    /\ row.invoice_number # None
    /\ row.vendor # None
    /\ \A i \in DOMAIN d.invoice : d.invoice[i].invoice_number # row.invoice_number

\* Model.query.get(id): the row exists.
HasBooking(d, id) == id \in DOMAIN d.media_booking
HasPo(d, id) == id \in DOMAIN d.purchase_order
HasInvoice(d, id) == id \in DOMAIN d.invoice

----------------------------------------------------------------------------
\* POST /media-bookings and POST /api/media-bookings

MediaBooking(form) ==
    [campaign_name |-> form.campaign_name,
     channel |-> form.channel,
     market |-> form.market,
     vendor |-> form.vendor,
     start_date |-> form.start_date,
     end_date |-> form.end_date,
     unit_rate |-> ToNumber(form.unit_rate),
     units |-> ToNumber(form.units),
     budget |-> ToNumber(form.budget),
     currency |-> OrText(form.currency, "USD"),
     status |-> OrText(form.status, "PLANNED")]

\* db.session.add(booking); db.session.commit()
InsertBooking(d, row) == [d EXCEPT !.media_booking = Append(@, row)]

media_bookings(d, form, json) ==
    IF RaisesValueError(form.unit_rate) \/ RaisesValueError(form.units)
         \/ RaisesValueError(form.budget)
    THEN [db |-> d, resp |-> Unhandled("media_bookings", "ValueError")]
    ELSE LET booking == MediaBooking(form)
             id == Len(d.media_booking) + 1
         IN IF ~MediaBookingAccepts(d, booking)
            THEN [db |-> d, resp |-> Unhandled("media_bookings", "IntegrityError")]
            ELSE [db |-> InsertBooking(d, booking),
                  resp |-> IF json
                           THEN Response("media_bookings", 201, "Media booking created", id)
                           ELSE Response("media_bookings", 302,
                                         "Media booking created successfully.", id)]

api_create_booking(d, data) ==
    IF RaisesValueError(data.unit_rate) \/ RaisesValueError(data.units)
         \/ RaisesValueError(data.budget)
    THEN [db |-> d, resp |-> Unhandled("api_create_booking", "ValueError")]
    ELSE LET booking == MediaBooking(data)
             id == Len(d.media_booking) + 1
         IN IF ~MediaBookingAccepts(d, booking)
            THEN [db |-> d, resp |-> Unhandled("api_create_booking", "IntegrityError")]
            ELSE [db |-> InsertBooking(d, booking),
                  resp |-> Response("api_create_booking", 201, "Media booking created", id)]

----------------------------------------------------------------------------
\* POST /purchase-orders: validation and duplicate lookup, then the insert.

Pass(op) == [pass |-> TRUE, resp |-> Response(op, 0, "", 0)]
Reject(r) == [pass |-> FALSE, resp |-> r]

\* Seeded fault (C1): the lookup filters on the wrong column.
ExistingPo_WrongColumn(d, po_number) ==
    \E i \in DOMAIN d.purchase_order : d.purchase_order[i].vendor = po_number

\* PurchaseOrder.query.filter_by(po_number=po_number).first()
ExistingPo(d, po_number) ==
    \E i \in DOMAIN d.purchase_order : d.purchase_order[i].po_number = po_number

\* The response of a rejected request: the JSON error, or the flash and redirect.
FormError(op, json, code, error, flash) ==
    IF json THEN Response(op, code, error, 0) ELSE Response(op, 302, flash, 0)

\* Seeded fault (C5): the po_number check is missing.
purchase_orders_check_NoPoNumber(d, form, json) ==
    IF Falsy(form.vendor)
    THEN Reject(FormError("purchase_orders", json, 400,
                          "vendor is required", "Vendor is required."))
    ELSE IF ExistingPo(d, form.po_number)
    THEN Reject(FormError("purchase_orders", json, 409, "PO number already exists",
                          "PO Number already exists. Please enter a different value."))
    ELSE Pass("purchase_orders")

purchase_orders_check(d, form, json) ==
    IF Falsy(form.po_number)
    THEN Reject(FormError("purchase_orders", json, 400,
                          "po_number is required", "PO Number is required."))
    ELSE IF Falsy(form.vendor)
    THEN Reject(FormError("purchase_orders", json, 400,
                          "vendor is required", "Vendor is required."))
    ELSE IF ExistingPo(d, form.po_number)
    THEN Reject(FormError("purchase_orders", json, 409, "PO number already exists",
                          "PO Number already exists. Please enter a different value."))
    ELSE Pass("purchase_orders")

\* db.session.add(po); db.session.commit()
InsertPo(d, row) == [d EXCEPT !.purchase_order = Append(@, row)]

purchase_orders_insert(d, form, json) ==
    IF RaisesValueError(form.booking_id) \/ RaisesValueError(form.total_amount)
    THEN [db |-> d, resp |-> Unhandled("purchase_orders", "ValueError")]
    ELSE LET po == [po_number |-> form.po_number,
                    vendor |-> form.vendor,
                    booking_id |-> ToNumber(form.booking_id),
                    total_amount |-> ToNumber(form.total_amount),
                    currency |-> OrText(form.currency, "USD"),
                    status |-> OrText(form.status, "CREATED")]
             id == Len(d.purchase_order) + 1
         IN IF ~PurchaseOrderAccepts(d, po)
            THEN [db |-> d, resp |-> Unhandled("purchase_orders", "IntegrityError")]
            ELSE [db |-> InsertPo(d, po),
                  resp |-> IF json
                           THEN Response("purchase_orders", 201, "Purchase order created", id)
                           ELSE Response("purchase_orders", 302,
                                         "Purchase order created successfully.", id)]

purchase_orders(d, form, json) ==
    LET c == purchase_orders_check(d, form, json)
    IN IF c.pass THEN purchase_orders_insert(d, form, json) ELSE [db |-> d, resp |-> c.resp]

----------------------------------------------------------------------------
\* POST /api/purchase-orders: the checks up to the vendor fallback, then the
\* insert with the po_number and vendor the checks settled.

api_create_po_check(d, data, now) ==
    IF FalsyInt(data.booking_id)
    THEN [pass |-> FALSE, po_number |-> None, vendor |-> None,
          resp |-> Response("api_create_po", 400, "booking_id is required", 0)]
    ELSE IF ~HasBooking(d, data.booking_id)
    THEN [pass |-> FALSE, po_number |-> None, vendor |-> None,
          resp |-> Response("api_create_po", 404, "Invalid booking_id", 0)]
    ELSE IF ~Falsy(data.po_number) /\ ExistingPo(d, data.po_number)
    THEN [pass |-> FALSE, po_number |-> None, vendor |-> None,
          resp |-> Response("api_create_po", 409, "PO number already exists", 0)]
    ELSE LET po_number == IF ~Falsy(data.po_number) THEN data.po_number
                          ELSE AutoPoNumber(now)
             vendor == OrText(data.vendor, d.media_booking[data.booking_id].vendor)
         IN IF Falsy(vendor)
            THEN [pass |-> FALSE, po_number |-> None, vendor |-> None,
                  resp |-> Response("api_create_po", 400, "vendor is required", 0)]
            ELSE [pass |-> TRUE, po_number |-> po_number, vendor |-> vendor,
                  resp |-> Response("api_create_po", 0, "", 0)]

api_create_po_insert(d, data, po_number, vendor) ==
    LET po == [po_number |-> po_number,
               vendor |-> vendor,
               booking_id |-> data.booking_id,
               total_amount |-> OrInt(data.total_amount, 0),
               currency |-> OrText(data.currency, "USD"),
               status |-> OrText(data.status, "CREATED")]
        id == Len(d.purchase_order) + 1
    IN IF ~PurchaseOrderAccepts(d, po)
       THEN [db |-> d, resp |-> Unhandled("api_create_po", "IntegrityError")]
       ELSE [db |-> InsertPo(d, po),
             resp |-> Response("api_create_po", 201, "PO created successfully", id)]

api_create_po(d, data, now) ==
    LET c == api_create_po_check(d, data, now)
    IN IF c.pass THEN api_create_po_insert(d, data, c.po_number, c.vendor)
       ELSE [db |-> d, resp |-> c.resp]

----------------------------------------------------------------------------
\* POST /invoices and POST /api/invoices: the insert and its commit, then the
\* purchase order's status update and its own commit.

\* Seeded fault (C2): the update is guarded on the order's current status.
MarkInvoiced_OnlyCreated(d, po_id) ==
    IF ~FalsyInt(po_id) /\ HasPo(d, po_id) /\ d.purchase_order[po_id].status = "CREATED"
    THEN [d EXCEPT !.purchase_order[po_id].status = "INVOICED"]
    ELSE d

\* if inv.po_id: po = PurchaseOrder.query.get(inv.po_id);
\* if po: po.status = "INVOICED"; db.session.commit()
MarkInvoiced(d, po_id) ==
    IF ~FalsyInt(po_id) /\ HasPo(d, po_id)
    THEN [d EXCEPT !.purchase_order[po_id].status = "INVOICED"]
    ELSE d

\* Seeded fault (C9): the invoice and the order's status in one commit.
InsertInvoice_SameCommit(d, row) ==
    MarkInvoiced([d EXCEPT !.invoice = Append(@, row)], row.po_id)

\* db.session.add(inv); db.session.commit()
InsertInvoice(d, row) == [d EXCEPT !.invoice = Append(@, row)]

invoices_insert(d, form) ==
    IF RaisesValueError(form.booking_id) \/ RaisesValueError(form.po_id)
         \/ RaisesValueError(form.amount) \/ RaisesValueError(form.tax_amount)
    THEN [ok |-> FALSE, db |-> d, id |-> 0,
          resp |-> Unhandled("invoices", "ValueError")]
    ELSE LET inv == [invoice_number |-> form.invoice_number,
                     vendor |-> form.vendor,
                     booking_id |-> ToNumber(form.booking_id),
                     po_id |-> ToNumber(form.po_id),
                     amount |-> ToNumber(form.amount),
                     tax_amount |-> ToNumber(form.tax_amount),
                     currency |-> OrText(form.currency, "USD"),
                     status |-> OrText(form.status, "RECEIVED"),
                     comments |-> form.comments]
         IN IF ~InvoiceAccepts(d, inv)
            THEN [ok |-> FALSE, db |-> d, id |-> 0,
                  resp |-> Unhandled("invoices", "IntegrityError")]
            ELSE [ok |-> TRUE, db |-> InsertInvoice(d, inv), id |-> Len(d.invoice) + 1,
                  resp |-> Response("invoices", 0, "", 0)]

invoices_po_update(d, inv_id, json) ==
    [db |-> MarkInvoiced(d, d.invoice[inv_id].po_id),
     resp |-> IF json THEN Response("invoices", 201, "Invoice created", inv_id)
              ELSE Response("invoices", 302, "Invoice created successfully.", inv_id)]

invoices(d, form, json) ==
    LET a == invoices_insert(d, form)
    IN IF a.ok THEN invoices_po_update(a.db, a.id, json) ELSE [db |-> d, resp |-> a.resp]

api_create_invoice_insert(d, data) ==
    LET inv == [invoice_number |-> data.invoice_number,
                vendor |-> data.vendor,
                booking_id |-> data.booking_id,
                po_id |-> data.po_id,
                amount |-> OrInt(data.amount, 0),
                tax_amount |-> OrInt(data.tax_amount, 0),
                currency |-> OrText(data.currency, "USD"),
                status |-> OrText(data.status, "RECEIVED"),
                comments |-> data.comments]
    IN IF ~InvoiceAccepts(d, inv)
       THEN [ok |-> FALSE, db |-> d, id |-> 0,
             resp |-> Unhandled("api_create_invoice", "IntegrityError")]
       ELSE [ok |-> TRUE, db |-> InsertInvoice(d, inv), id |-> Len(d.invoice) + 1,
             resp |-> Response("api_create_invoice", 0, "", 0)]

api_create_invoice_po_update(d, inv_id) ==
    [db |-> MarkInvoiced(d, d.invoice[inv_id].po_id),
     resp |-> Response("api_create_invoice", 201, "Invoice created", inv_id)]

api_create_invoice(d, data) ==
    LET a == api_create_invoice_insert(d, data)
    IN IF a.ok THEN api_create_invoice_po_update(a.db, a.id)
       ELSE [db |-> d, resp |-> a.resp]

----------------------------------------------------------------------------
\* The invoice transitions.

\* (inv.comments or "")
OrEmpty(comments) == IF comments = NoneText THEN <<>> ELSE comments

ApproveLine == <<"\nAuto-approved by Agent.">>
FlagLine(reason) == <<"\nFLAG: ", reason>>
SentLine == <<"\nInvoice sent for validation.">>
DefaultReason == "Flagged for manual review"

\* Invoice.query.get_or_404(inv_id)
NotFound(op) == Response(op, 404, "Not Found", 0)

\* Seeded fault (C6): approving an invoice also rewrites its order's status.
api_approve_invoice_ApprovesPo(d, inv_id) ==
    IF ~HasInvoice(d, inv_id)
    THEN [db |-> d, resp |-> NotFound("api_approve_invoice")]
    ELSE LET po_id == d.invoice[inv_id].po_id
             a == [d EXCEPT !.invoice[inv_id].status = "APPROVED",
                            !.invoice[inv_id].comments = OrEmpty(@) \o ApproveLine]
         IN [db |-> IF HasPo(d, po_id)
                    THEN [a EXCEPT !.purchase_order[po_id].status = "APPROVED"]
                    ELSE a,
             resp |-> Response("api_approve_invoice", 200, "Invoice approved", inv_id)]

api_approve_invoice(d, inv_id) ==
    IF ~HasInvoice(d, inv_id)
    THEN [db |-> d, resp |-> NotFound("api_approve_invoice")]
    ELSE [db |-> [d EXCEPT !.invoice[inv_id].status = "APPROVED",
                           !.invoice[inv_id].comments = OrEmpty(@) \o ApproveLine],
          resp |-> Response("api_approve_invoice", 200, "Invoice approved", inv_id)]

\* Seeded fault (C4): the flag line replaces the comments.
api_flag_invoice_Overwrites(d, inv_id, data) ==
    IF ~HasInvoice(d, inv_id)
    THEN [db |-> d, resp |-> NotFound("api_flag_invoice")]
    ELSE LET reason == OrText(data.reason, DefaultReason)
         IN [db |-> [d EXCEPT !.invoice[inv_id].status = "FLAGGED",
                              !.invoice[inv_id].comments = FlagLine(reason)],
             resp |-> Response("api_flag_invoice", 200, "Invoice flagged", inv_id)]

api_flag_invoice(d, inv_id, data) ==
    IF ~HasInvoice(d, inv_id)
    THEN [db |-> d, resp |-> NotFound("api_flag_invoice")]
    ELSE LET reason == OrText(data.reason, DefaultReason)
         IN [db |-> [d EXCEPT !.invoice[inv_id].status = "FLAGGED",
                              !.invoice[inv_id].comments = OrEmpty(@) \o FlagLine(reason)],
             resp |-> Response("api_flag_invoice", 200, "Invoice flagged", inv_id)]

\* Seeded fault (C3): the status guard is missing.
send_invoice_NoGuard(d, inv_id) ==
    IF ~HasInvoice(d, inv_id)
    THEN [db |-> d, resp |-> NotFound("send_invoice")]
    ELSE [db |-> [d EXCEPT !.invoice[inv_id].status = "APPROVED",
                           !.invoice[inv_id].comments = OrEmpty(@) \o SentLine],
          resp |-> Response("send_invoice", 302,
                            "Invoice <invoice_number> sent for validation.", inv_id)]

\* Seeded fault (C10): the guard refuses only an APPROVED invoice.
send_invoice_GuardApproved(d, inv_id) ==
    IF ~HasInvoice(d, inv_id)
    THEN [db |-> d, resp |-> NotFound("send_invoice")]
    ELSE IF d.invoice[inv_id].status = "APPROVED"
    THEN [db |-> d,
          resp |-> Response("send_invoice", 302, "Invoice already processed.", inv_id)]
    ELSE [db |-> [d EXCEPT !.invoice[inv_id].status = "APPROVED",
                           !.invoice[inv_id].comments = OrEmpty(@) \o SentLine],
          resp |-> Response("send_invoice", 302,
                            "Invoice <invoice_number> sent for validation.", inv_id)]

send_invoice(d, inv_id) ==
    IF ~HasInvoice(d, inv_id)
    THEN [db |-> d, resp |-> NotFound("send_invoice")]
    ELSE IF d.invoice[inv_id].status # "RECEIVED"
    THEN [db |-> d,
          resp |-> Response("send_invoice", 302, "Invoice already processed.", inv_id)]
    ELSE [db |-> [d EXCEPT !.invoice[inv_id].status = "APPROVED",
                           !.invoice[inv_id].comments = OrEmpty(@) \o SentLine],
          resp |-> Response("send_invoice", 302,
                            "Invoice <invoice_number> sent for validation.", inv_id)]

----------------------------------------------------------------------------
\* The requests sent.

BookingForms ==
    [campaign_name : {None, "Spring"}, channel : {None, "TV"}, market : {None},
     vendor : {None, "Acme"}, start_date : {None}, end_date : {None},
     unit_rate : {None}, units : {None}, budget : {None, "abc"},
     currency : {None}, status : {None}]

PoForms ==
    [po_number : {None, "", "PO-1"}, vendor : {None, "Acme"},
     booking_id : {None}, total_amount : {None, "abc"},
     currency : {None}, status : {None, "HOLD"}]

PoData ==
    [booking_id : {NoneInt, 1, 2}, po_number : {None, "PO-1"},
     vendor : {None, "Acme"}, total_amount : {NoneInt},
     currency : {None}, status : {None}]

\* The clock's reading, in whole seconds.
Clock == {7}

InvoiceForms ==
    [invoice_number : {None, "INV-1"}, vendor : {"Acme"},
     booking_id : {None}, po_id : {None, "1", "2"}, amount : {None},
     tax_amount : {None}, currency : {None}, status : {None, "PAID"},
     comments : {NoneText}]

InvoiceData ==
    [invoice_number : {"INV-1", "INV-2"}, vendor : {"Acme"},
     booking_id : {NoneInt}, po_id : {NoneInt, 1}, amount : {NoneInt},
     tax_amount : {NoneInt}, currency : {None}, status : {None},
     comments : {NoneText, <<"note">>}]

FlagData == [reason : {None, "", "late"}]

\* The ids a URL names: every invoice's, and one that names none.
InvoiceIds(d) == 1 .. (Len(d.invoice) + 1)

----------------------------------------------------------------------------
\* One request at a time, each handler run to its response.

Idle == [at |-> "idle"]
Workers == {1, 2}

Init ==
    /\ db = EmptyDb
    /\ resp = Response("none", 0, "", 0)
    /\ nreq = 0
    /\ pc = [w \in Workers |-> "idle"]
    /\ local = [w \in Workers |-> Idle]

Handle(r) ==
    /\ nreq < MaxRequests
    /\ db' = r.db
    /\ resp' = r.resp
    /\ nreq' = nreq + 1
    /\ UNCHANGED <<pc, local>>

MediaBookingsPost == \E form \in BookingForms, json \in BOOLEAN : Handle(media_bookings(db, form, json))
ApiCreateBooking == \E data \in BookingForms : Handle(api_create_booking(db, data))
PurchaseOrdersPost == \E form \in PoForms, json \in BOOLEAN : Handle(purchase_orders(db, form, json))
ApiCreatePo == \E data \in PoData, now \in Clock : Handle(api_create_po(db, data, now))
InvoicesPost == \E form \in InvoiceForms, json \in BOOLEAN : Handle(invoices(db, form, json))
ApiCreateInvoice == \E data \in InvoiceData : Handle(api_create_invoice(db, data))
ApiApproveInvoice == \E inv_id \in InvoiceIds(db) : Handle(api_approve_invoice(db, inv_id))
ApiFlagInvoice == \E inv_id \in InvoiceIds(db), data \in FlagData : Handle(api_flag_invoice(db, inv_id, data))
SendInvoice == \E inv_id \in InvoiceIds(db) : Handle(send_invoice(db, inv_id))

Next ==
    \/ MediaBookingsPost
    \/ ApiCreateBooking
    \/ PurchaseOrdersPost
    \/ ApiCreatePo
    \/ InvoicesPost
    \/ ApiCreateInvoice
    \/ ApiApproveInvoice
    \/ ApiFlagInvoice
    \/ SendInvoice

Spec == Init /\ [][Next]_vars

----------------------------------------------------------------------------
\* Purchase order submissions of either route, and what a claim counts.

PoSubmissions ==
    [route : {"form"}, body : PoForms, json : BOOLEAN, now : Clock]
        \cup [route : {"api"}, body : PoData, json : {TRUE}, now : Clock]

Submit(d, s) ==
    IF s.route = "form" THEN purchase_orders(d, s.body, s.json)
    ELSE api_create_po(d, s.body, s.now)

CountPo(d, po_number) ==
    Cardinality({i \in DOMAIN d.purchase_order : d.purchase_order[i].po_number = po_number})

StoredPoNumbers(d) == {d.purchase_order[i].po_number : i \in DOMAIN d.purchase_order}

\* The submission gets as far as the duplicate lookup: the checks the handler
\* makes before it (po_number and vendor; booking_id and its booking) pass.
ReachesLookup(d, s) ==
    IF s.route = "form" THEN ~Falsy(s.body.vendor)
    ELSE ~FalsyInt(s.body.booking_id) /\ HasBooking(d, s.body.booking_id)

DuplicateFlash == "PO Number already exists. Please enter a different value."

\* C1 as stated: a second submission of a stored po_number always yields 409 and
\* the number of stored purchase orders with that po_number remains 1.
C1_SecondSubmissionAlways409 ==
    \A s \in PoSubmissions :
        s.body.po_number \in StoredPoNumbers(db) =>
            LET r == Submit(db, s)
            IN r.resp.code = 409 /\ CountPo(r.db, s.body.po_number) = 1

\* C1 as amended: a second submission of a stored po_number never inserts, so the
\* number of stored purchase orders with that po_number remains 1; it yields 409
\* exactly when it is a JSON request that gets as far as the duplicate lookup, a
\* form-encoded request is redirected (with the duplicate flash when it gets as
\* far as the lookup), and a request that fails an earlier check gets that
\* check's 400 or 404.
C1_SecondSubmissionRejected ==
    \A s \in PoSubmissions :
        s.body.po_number \in StoredPoNumbers(db) =>
            LET r == Submit(db, s)
            IN /\ r.db = db
               /\ CountPo(r.db, s.body.po_number) = 1
               /\ (r.resp.code = 409) = (s.json /\ ReachesLookup(db, s))
               /\ s.json /\ ~ReachesLookup(db, s) => r.resp.code \in {400, 404}
               /\ ~s.json => r.resp.code = 302
               /\ ~s.json /\ ReachesLookup(db, s) => r.resp.msg = DuplicateFlash

\* C1, reached: a second submission of a stored po_number was answered 409 and the number is
\* stored once.
C1_Witness ==
    /\ resp.op \in {"purchase_orders", "api_create_po"}
    /\ resp.code = 409
    /\ \E n \in StoredPoNumbers(db) : CountPo(db, n) = 1

\* C5 as stated: on the form path an absent or empty po_number always yields 400
\* and the store is unchanged.
C5_EmptyPoNumberAlways400 ==
    \A form \in PoForms, json \in BOOLEAN :
        Falsy(form.po_number) =>
            LET r == purchase_orders(db, form, json)
            IN r.resp.code = 400 /\ r.db = db

\* C5 as amended: on the form path an absent or empty po_number leaves the store
\* unchanged and is answered 400 "po_number is required" to a JSON caller and by
\* a redirect with the flash "PO Number is required." to a form-encoded caller.
C5_EmptyPoNumberRejected ==
    \A form \in PoForms, json \in BOOLEAN :
        Falsy(form.po_number) =>
            LET r == purchase_orders(db, form, json)
            IN /\ r.db = db
               /\ json => r.resp.code = 400 /\ r.resp.msg = "po_number is required"
               /\ ~json => r.resp.code = 302 /\ r.resp.msg = "PO Number is required."

\* C5, reached: a form-encoded request without po_number was redirected, with purchase orders
\* stored before it.
C5_Witness ==
    /\ resp.op = "purchase_orders"
    /\ resp.code = 302
    /\ resp.msg = "PO Number is required."
    /\ Len(db.purchase_order) > 0

\* Booking creation by either route.
BookingSubmissions == [route : {"form"}, body : BookingForms, json : BOOLEAN]
                          \cup [route : {"api"}, body : BookingForms, json : {TRUE}]

SubmitBooking(d, s) ==
    IF s.route = "form" THEN media_bookings(d, s.body, s.json)
    ELSE api_create_booking(d, s.body)

\* C7 as stated: a booking whose campaign_name or channel is absent is persisted
\* with null in the absent field and answered with the creation success response
\* (201 for JSON callers).
C7_AbsentFieldStoredAsNull ==
    \A s \in BookingSubmissions :
        (s.body.campaign_name = None \/ s.body.channel = None) =>
            LET r == SubmitBooking(db, s)
                id == Len(db.media_booking) + 1
            IN /\ Len(r.db.media_booking) = id
               /\ r.db.media_booking[id].campaign_name = s.body.campaign_name
               /\ r.db.media_booking[id].channel = s.body.channel
               /\ r.resp.code = IF s.json THEN 201 ELSE 302

\* C7 as amended: the handlers make no required-field check of their own for
\* campaign_name and channel, but both columns are NOT NULL: when either is
\* absent no booking is persisted and the request ends in an unhandled error
\* (500), the commit's IntegrityError unless a malformed number raised
\* ValueError first; when both are given and the numbers are well formed the
\* booking is persisted and answered 201 (JSON) or by the redirect.
C7_AbsentFieldFailsCommit ==
    \A s \in BookingSubmissions :
        LET r == SubmitBooking(db, s)
            malformed == s.body.budget \notin {None, "", "0", "1", "2", "3", "250"}
        IN IF s.body.campaign_name = None \/ s.body.channel = None
           THEN /\ r.db = db
                /\ r.resp.code = 500
                /\ r.resp.msg = IF malformed THEN "ValueError" ELSE "IntegrityError"
           ELSE ~malformed =>
                    /\ Len(r.db.media_booking) = Len(db.media_booking) + 1
                    /\ r.resp.code = IF s.json THEN 201 ELSE 302

\* C7, reached: a booking request failed at the commit, after another booking was stored.
C7_Witness ==
    /\ resp.op \in {"media_bookings", "api_create_booking"}
    /\ resp.code = 500
    /\ resp.msg = "IntegrityError"
    /\ Len(db.media_booking) > 0

\* Invoice creation by either route.
InvoiceSubmissions == [route : {"form"}, body : InvoiceForms, json : BOOLEAN]
                          \cup [route : {"api"}, body : InvoiceData, json : {TRUE}]

SubmitInvoice(d, s) ==
    IF s.route = "form" THEN invoices(d, s.body, s.json)
    ELSE api_create_invoice(d, s.body)

\* The po_id the request's invoice carries.
RequestedPoId(s) == IF s.route = "form" THEN ToNumber(s.body.po_id) ELSE s.body.po_id

\* C2: every invoice creation, by POST /invoices or POST /api/invoices, whose
\* po_id refers to an existing purchase order leaves that order's status exactly
\* "INVOICED" once the handler has returned its response, whatever the status was
\* before, and changes no other purchase order.
C2_InvoiceMarksPoInvoiced ==
    \A s \in InvoiceSubmissions :
        LET r == SubmitInvoice(db, s)
            po_id == RequestedPoId(s)
        IN (r.resp.code \in {201, 302} /\ HasPo(db, po_id)) =>
               /\ r.db.purchase_order[po_id].status = "INVOICED"
               /\ \A k \in DOMAIN db.purchase_order :
                      k # po_id => r.db.purchase_order[k] = db.purchase_order[k]

\* C2, reached: an invoice was created against an existing purchase order, which is now
\* INVOICED.
C2_Witness ==
    /\ resp.op \in {"invoices", "api_create_invoice"}
    /\ resp.code \in {201, 302}
    /\ HasInvoice(db, resp.id)
    /\ HasPo(db, db.invoice[resp.id].po_id)
    /\ db.purchase_order[db.invoice[resp.id].po_id].status = "INVOICED"

\* C3: send-invoice on an existing invoice whose status is not "RECEIVED" leaves
\* the invoice's status and comments and every other record unchanged and reports
\* "Invoice already processed.".
C3_SendOnProcessedIsNoOp ==
    \A i \in DOMAIN db.invoice :
        db.invoice[i].status # "RECEIVED" =>
            LET r == send_invoice(db, i)
            IN /\ r.db = db
               /\ r.resp.msg = "Invoice already processed."
               /\ r.resp.code = 302

\* C3, reached: send-invoice was called on an invoice that was not RECEIVED.
C3_Witness ==
    /\ resp.op = "send_invoice"
    /\ resp.msg = "Invoice already processed."
    /\ HasInvoice(db, resp.id)
    /\ db.invoice[resp.id].status # "RECEIVED"

\* C4: for every existing invoice, whatever its status, approve followed by flag
\* ends with status "FLAGGED" and with comments equal to the prior comments (empty
\* when there were none), then the approve line "Auto-approved by Agent.", then
\* the flag line "FLAG: " with the supplied reason, or the default one.
C4_ApproveThenFlag ==
    \A i \in DOMAIN db.invoice, data \in FlagData :
        LET approved == api_approve_invoice(db, i)
            flagged == api_flag_invoice(approved.db, i, data)
            prior == IF db.invoice[i].comments = NoneText THEN <<>>
                     ELSE db.invoice[i].comments
            reason == IF data.reason \in {None, ""} THEN "Flagged for manual review"
                      ELSE data.reason
        IN /\ flagged.db.invoice[i].status = "FLAGGED"
           /\ flagged.db.invoice[i].comments =
                  prior \o <<"\nAuto-approved by Agent.">> \o <<"\nFLAG: ", reason>>
           /\ flagged.resp.code = 200

\* C4, reached: an invoice was approved and then flagged: it is FLAGGED and its comments end
\* with the approve line and the flag line.
C4_Witness ==
    /\ resp.op = "api_flag_invoice"
    /\ resp.code = 200
    /\ LET c == db.invoice[resp.id].comments
       IN /\ Len(c) >= 3
          /\ c[Len(c) - 2] = "\nAuto-approved by Agent."
          /\ c[Len(c) - 1] = "\nFLAG: "
          /\ db.invoice[resp.id].status = "FLAGGED"

----------------------------------------------------------------------------
\* What one step may change.

InvoiceCreation == {"invoices", "api_create_invoice"}
InvoiceTransitions == {"api_approve_invoice", "api_flag_invoice", "send_invoice"}

\* C6: no persisted booking, purchase order or invoice is ever deleted; a step
\* changes no field of a persisted booking; of a persisted purchase order it
\* changes at most the status, and only in invoice creation; of a persisted
\* invoice it changes at most status and comments, and only in approve, flag or
\* send-invoice.
C6_Frame ==
    /\ Len(db'.media_booking) >= Len(db.media_booking)
    /\ Len(db'.purchase_order) >= Len(db.purchase_order)
    /\ Len(db'.invoice) >= Len(db.invoice)
    /\ \A i \in DOMAIN db.media_booking : db'.media_booking[i] = db.media_booking[i]
    /\ \A i \in DOMAIN db.purchase_order :
           /\ [db'.purchase_order[i] EXCEPT !.status = db.purchase_order[i].status]
                  = db.purchase_order[i]
           /\ db'.purchase_order[i] # db.purchase_order[i] => resp'.op \in InvoiceCreation
    /\ \A i \in DOMAIN db.invoice :
           /\ [db'.invoice[i] EXCEPT !.status = db.invoice[i].status,
                                     !.comments = db.invoice[i].comments]
                  = db.invoice[i]
           /\ db'.invoice[i] # db.invoice[i] => resp'.op \in InvoiceTransitions

C6_OnlyStatusAndCommentsChange == [][C6_Frame]_vars

\* C6, reached: a purchase order was marked INVOICED and an invoice has been approved or
\* flagged since.
C6_Witness ==
    /\ resp.op \in {"api_approve_invoice", "api_flag_invoice"}
    /\ resp.code = 200
    /\ \E i \in DOMAIN db.purchase_order : db.purchase_order[i].status = "INVOICED"

\* The send-invoice step that took effect on invoice i.
SendTookEffect(i) ==
    /\ resp'.op = "send_invoice"
    /\ resp'.id = i
    /\ db'.invoice[i] # db.invoice[i]

\* C10: no step sets a persisted invoice's status to "RECEIVED" once it is
\* something else, and send-invoice takes effect only on an invoice that is
\* RECEIVED and leaves it not RECEIVED: so it takes effect at most once per
\* invoice.
C10_Step ==
    \A i \in DOMAIN db.invoice :
        /\ db.invoice[i].status # "RECEIVED" => db'.invoice[i].status # "RECEIVED"
        /\ SendTookEffect(i) =>
               /\ db.invoice[i].status = "RECEIVED"
               /\ db'.invoice[i].status # "RECEIVED"
               /\ db'.invoice[i].comments
                      = (IF db.invoice[i].comments = NoneText THEN <<>>
                         ELSE db.invoice[i].comments) \o <<"\nInvoice sent for validation.">>

C10_NeverReceivedAgain == [][C10_Step]_vars

\* C10, reached: send-invoice took effect on an invoice and a later send-invoice on it was
\* refused: its comments hold the audit line once.
C10_Witness ==
    /\ resp.op = "send_invoice"
    /\ resp.msg = "Invoice already processed."
    /\ HasInvoice(db, resp.id)
    /\ Cardinality({k \in DOMAIN db.invoice[resp.id].comments :
                       db.invoice[resp.id].comments[k] = "\nInvoice sent for validation."}) = 1

----------------------------------------------------------------------------
\* Two server threads. A creation handler runs commit by commit: a thread that
\* has passed the purchase order checks holds its request until its insert, and
\* a thread that has committed its invoice holds the invoice's id until the
\* purchase order update. A thread that stops in between is a crashed request.

Holding(at, route, body, json, po_number, vendor, inv_id) ==
    [at |-> at, route |-> route, body |-> body, json |-> json,
     po_number |-> po_number, vendor |-> vendor, inv_id |-> inv_id]

\* A thread answers: its response, and it is idle again.
Answer(w, r) ==
    /\ resp' = r
    /\ pc' = [pc EXCEPT ![w] = "idle"]
    /\ local' = [local EXCEPT ![w] = Idle]

Start(w) ==
    /\ pc[w] = "idle"
    /\ nreq < MaxRequests
    /\ nreq' = nreq + 1

ThreadCreateBooking(w) ==
    /\ Start(w)
    /\ \E s \in BookingSubmissions :
           LET r == SubmitBooking(db, s)
           IN db' = r.db /\ Answer(w, r.resp)

ThreadPoCheck(w) ==
    /\ Start(w)
    /\ \E form \in PoForms, json \in BOOLEAN :
           LET c == purchase_orders_check(db, form, json)
           IN /\ db' = db
              /\ IF c.pass
                 THEN /\ pc' = [pc EXCEPT ![w] = "po_insert"]
                      /\ local' = [local EXCEPT ![w] =
                             Holding("po_insert", "form", form, json,
                                     form.po_number, form.vendor, 0)]
                      /\ resp' = resp
                 ELSE Answer(w, c.resp)

ThreadApiPoCheck(w) ==
    /\ Start(w)
    /\ \E data \in PoData, now \in Clock :
           LET c == api_create_po_check(db, data, now)
           IN /\ db' = db
              /\ IF c.pass
                 THEN /\ pc' = [pc EXCEPT ![w] = "po_insert"]
                      /\ local' = [local EXCEPT ![w] =
                             Holding("po_insert", "api", data, TRUE,
                                     c.po_number, c.vendor, 0)]
                      /\ resp' = resp
                 ELSE Answer(w, c.resp)

ThreadPoInsert(w) ==
    /\ pc[w] = "po_insert"
    /\ LET h == local[w]
           r == IF h.route = "form" THEN purchase_orders_insert(db, h.body, h.json)
                ELSE api_create_po_insert(db, h.body, h.po_number, h.vendor)
       IN db' = r.db /\ Answer(w, r.resp)
    /\ nreq' = nreq

ThreadInvoiceInsert(w) ==
    /\ Start(w)
    /\ \E s \in InvoiceSubmissions :
           LET a == IF s.route = "form" THEN invoices_insert(db, s.body)
                    ELSE api_create_invoice_insert(db, s.body)
           IN /\ db' = a.db
              /\ IF a.ok
                 THEN /\ pc' = [pc EXCEPT ![w] = "inv_po_update"]
                      /\ local' = [local EXCEPT ![w] =
                             Holding("inv_po_update", s.route, s.body, s.json,
                                     None, None, a.id)]
                      /\ resp' = resp
                 ELSE Answer(w, a.resp)

ThreadInvoicePoUpdate(w) ==
    /\ pc[w] = "inv_po_update"
    /\ LET h == local[w]
           r == IF h.route = "form" THEN invoices_po_update(db, h.inv_id, h.json)
                ELSE api_create_invoice_po_update(db, h.inv_id)
       IN db' = r.db /\ Answer(w, r.resp)
    /\ nreq' = nreq

NextConc ==
    \E w \in Workers :
        \/ ThreadCreateBooking(w)
        \/ ThreadPoCheck(w)
        \/ ThreadApiPoCheck(w)
        \/ ThreadPoInsert(w)
        \/ ThreadInvoiceInsert(w)
        \/ ThreadInvoicePoUpdate(w)

SpecConc == Init /\ [][NextConc]_vars

----------------------------------------------------------------------------
\* Thread w's insert step, taken after another request stored the po_number that
\* w's own duplicate lookup had found free.
LateInsert(w) ==
    /\ pc[w] = "po_insert"
    /\ pc'[w] = "idle"
    /\ local[w].po_number \in StoredPoNumbers(db)

\* No two stored purchase orders share a po_number.
UniquePoNumbers == \A n \in StoredPoNumbers(db) : CountPo(db, n) = 1

\* C8 as stated: when two requests with one po_number have both passed the
\* duplicate lookup, both insert, and two stored purchase orders share the
\* po_number.
C8_BothInsert ==
    [][\A w \in Workers :
           LateInsert(w) /\ resp'.msg # "ValueError"
               => CountPo(db', local[w].po_number) = 2]_vars

\* C8 as amended: two interleaved requests with one po_number can both pass the
\* duplicate lookup, but po_number is declared unique: the commit of the second
\* insert fails with an unhandled IntegrityError (500) and stores nothing, and no
\* two stored purchase orders ever share a po_number.
C8_SecondInsertFails ==
    /\ []UniquePoNumbers
    /\ [][\A w \in Workers :
              LateInsert(w) /\ resp'.msg # "ValueError"
                  => /\ db' = db
                     /\ resp'.code = 500
                     /\ resp'.msg = "IntegrityError"]_vars

\* C8, reached: two form requests passed the duplicate lookup with one po_number; one stored
\* its purchase order and the other's commit failed.
C8_Witness ==
    /\ resp.op = "purchase_orders"
    /\ resp.code = 500
    /\ resp.msg = "IntegrityError"
    /\ CountPo(db, "PO-1") = 1

\* C9: invoice creation commits twice. The step that commits the invoice stores
\* it and changes no purchase order, so from then until the second step the
\* invoice is persisted while the order has the status it had; the second step
\* changes nothing but that order's status.
C9_Step ==
    \A w \in Workers :
        /\ (pc[w] = "idle" /\ pc'[w] = "inv_po_update") =>
               /\ Len(db'.invoice) = Len(db.invoice) + 1
               /\ local'[w].inv_id = Len(db'.invoice)
               /\ db'.purchase_order = db.purchase_order
        /\ (pc[w] = "inv_po_update" /\ pc'[w] = "idle") =>
               /\ db'.invoice = db.invoice
               /\ db' = MarkInvoiced(db, db.invoice[local[w].inv_id].po_id)

C9_InvoiceCommitsBeforePoUpdate ==
    /\ [](\A w \in Workers : pc[w] = "inv_po_update" => HasInvoice(db, local[w].inv_id))
    /\ [][C9_Step]_vars

\* C9, reached: between the two commits: the invoice is persisted, its purchase order exists
\* and is not INVOICED.
C9_Witness ==
    \E w \in Workers :
        /\ pc[w] = "inv_po_update"
        /\ HasInvoice(db, local[w].inv_id)
        /\ HasPo(db, db.invoice[local[w].inv_id].po_id)
        /\ db.purchase_order[db.invoice[local[w].inv_id].po_id].status # "INVOICED"

====
